---- MODULE Spec2Model ----
(***************************************************************************)
(* Model of src/prisma_value.rs: the PrismaValue / Item types, the two     *)
(* conversions between PrismaValue and prisma_models::PrismaValue, and the *)
(* conversion of a query_core::Item result tree (with Arc-shared Ref       *)
(* nodes) into an owned Item tree.                                         *)
(*                                                                         *)
(* Every value is a record [tag, val]; tag is the enum variant.            *)
(*   i64  : four 16-bit limbs <<l3, l2, l1, l0>>, two's complement         *)
(*   i32  : two 16-bit limbs <<l1, l0>>, two's complement                  *)
(*   text : a sequence of one-character strings                            *)
(***************************************************************************)
EXTENDS Integers, Sequences, FiniteSets, TLC

VARIABLES
    cin,      \* conversion run: the argument, [side, arg]
    cout,     \* conversion run: outcome of the first conversion
    cback,    \* conversion run: outcome of converting cout back
    arcs,     \* Arc heap: id -> [strong, state, data]
    work,     \* holder -> the query_core::Item it is converting
    status,   \* holder -> "idle" | "running" | "unwinding" | "done" | "panicked"
    drops,    \* holder -> Arcs whose drop is in progress (in drop order)
    result,   \* holder -> the Item returned
    log,      \* Arc id -> the try_unwrap calls so far: [seen, path]
    calls,    \* Arc id -> number of try_unwrap calls so far, by path
    copies,   \* Arc id -> number of to_owned() copies made of its data
    freed,    \* Arc id -> number of times its data left the Arc (moved out or dropped)
    data0,    \* Arc id -> the data the Arc was built with
    input0    \* holder -> the item it was handed

convVars == <<cin, cout, cback>>
treeVars == <<arcs, work, status, drops, result, log, calls, copies, freed, data0, input0>>
vars == <<cin, cout, cback, arcs, work, status, drops, result, log, calls, copies,
          freed, data0, input0>>

-----------------------------------------------------------------------------
(* Bounds *)

MaxJsonLen == 3     \* longest JSON text drawn as an input
MaxLen == 2         \* longest List / Object drawn as an input
MaxDepth == 1       \* extra List / Object levels wrapped around an input
NumHolders == 2     \* holders converting result trees

-----------------------------------------------------------------------------
(* Values *)

Mk(t, v) == [tag |-> t, val |-> v]

\* The outcome of a call that did not return: Option/Result::unwrap() panicked.
Panic == Mk("Panic", <<>>)
IsPanic(r) == r.tag = "Panic"
NoOutcome == Mk("NoOutcome", <<>>)

Limb == 2^16

\* `value as i32` on an i64: keeps the low 32 bits.
AsI32Saturating(n) ==
    IF n[1] = 0 /\ n[2] = 0 /\ n[3] < Limb \div 2 THEN <<n[3], n[4]>>
    ELSE IF n[1] = Limb - 1 /\ n[2] = Limb - 1 /\ n[3] >= Limb \div 2 THEN <<n[3], n[4]>>
    ELSE IF n[1] < Limb \div 2 THEN <<Limb \div 2 - 1, Limb - 1>>
    ELSE <<Limb \div 2, 0>>
AsI32(n) == <<n[3], n[4]>>

\* `value as i64` on an i32: sign extension.
AsI64ZeroExtended(m) == <<0, 0, m[1], m[2]>>
AsI64(m) ==
    LET ext == IF m[1] >= Limb \div 2 THEN Limb - 1 ELSE 0
    IN  <<ext, ext, m[1], m[2]>>

\* The integer an i32 denotes.
I32Value(m) ==
    IF m[1] >= Limb \div 2 THEN (m[1] - Limb) * Limb + m[2] ELSE m[1] * Limb + m[2]
\* The i32 of an integer in -2^31 .. 2^31 - 1.
I32Of(k) == <<(k \div Limb) % Limb, k % Limb>>

-----------------------------------------------------------------------------
(* serde_json: from_str and to_string, on texts over JsonAlphabet.  A JSON  *)
(* document is Number(n), Array(elements) or Object(members).               *)

JsonAlphabet == {"[", "]", "{", "}", ",", "1", " "}
Digits == <<"0", "1", "2", "3", "4", "5", "6", "7", "8", "9">>
IsDigit(c) == \E d \in 1..10 : Digits[d] = c
DigitValue(c) == (CHOOSE d \in 1..10 : Digits[d] = c) - 1

ParseFail == [ok |-> FALSE, doc |-> Mk("Number", 0), pos |-> 0]
ParseOk(d, p) == [ok |-> TRUE, doc |-> d, pos |-> p]

RECURSIVE SkipWs(_, _)
SkipWs(s, i) == IF i <= Len(s) /\ s[i] = " " THEN SkipWs(s, i + 1) ELSE i

RECURSIVE ScanDigits(_, _, _)
ScanDigits(s, i, acc) ==
    IF i <= Len(s) /\ IsDigit(s[i])
    THEN ScanDigits(s, i + 1, acc * 10 + DigitValue(s[i]))
    ELSE ParseOk(Mk("Number", acc), i)

\* A number: "0", or a nonzero digit followed by digits; "0" followed by a
\* digit is an error.
ParseNumber(s, i) ==
    IF s[i] = "0"
    THEN IF i + 1 <= Len(s) /\ IsDigit(s[i + 1]) THEN ParseFail
         ELSE ParseOk(Mk("Number", 0), i + 1)
    ELSE ScanDigits(s, i, 0)

RECURSIVE ParseValue(_, _)
RECURSIVE ParseElems(_, _, _)
ParseValue(s, i) ==
    IF i > Len(s) THEN ParseFail
    ELSE IF s[i] = "["
    THEN LET j == SkipWs(s, i + 1)
         IN  IF j <= Len(s) /\ s[j] = "]" THEN ParseOk(Mk("Array", <<>>), j + 1)
             ELSE ParseElems(s, j, <<>>)
    ELSE IF s[i] = "{"
    THEN LET j == SkipWs(s, i + 1)
         IN  \* a member needs a string key, which starts with a quote
             IF j <= Len(s) /\ s[j] = "}" THEN ParseOk(Mk("Object", <<>>), j + 1)
             ELSE ParseFail
    ELSE IF IsDigit(s[i]) THEN ParseNumber(s, i)
    ELSE ParseFail
ParseElems(s, i, acc) ==
    LET r == ParseValue(s, i)
    IN  IF ~r.ok THEN ParseFail
        ELSE LET j == SkipWs(s, r.pos)
             IN  IF j > Len(s) THEN ParseFail
                 ELSE IF s[j] = ","
                 THEN ParseElems(s, SkipWs(s, j + 1), Append(acc, r.doc))
                 ELSE IF s[j] = "]"
                 THEN ParseOk(Mk("Array", Append(acc, r.doc)), j + 1)
                 ELSE ParseFail

\* serde_json::from_str: one value, whitespace around it, nothing after it.
from_str(s) ==
    LET r == ParseValue(s, SkipWs(s, 1))
    IN  IF r.ok /\ SkipWs(s, r.pos) > Len(s) THEN r ELSE ParseFail

RECURSIVE NumberText(_)
NumberText(n) ==
    IF n < 10 THEN <<Digits[n + 1]>>
    ELSE Append(NumberText(n \div 10), Digits[(n % 10) + 1])

RECURSIVE to_string(_)
RECURSIVE JoinDocs(_, _)
JoinDocs(ds, i) ==
    IF i > Len(ds) THEN <<>>
    ELSE (IF i > 1 THEN <<",">> ELSE <<>>) \o to_string(ds[i]) \o JoinDocs(ds, i + 1)
\* serde_json::to_string: the compact form.
to_string(d) ==
    IF d.tag = "Number" THEN NumberText(d.val)
    ELSE IF d.tag = "Array" THEN <<"[">> \o JoinDocs(d.val, 1) \o <<"]">>
    ELSE <<"{", "}">>

-----------------------------------------------------------------------------
(* bigdecimal: a BigDecimal is Decimal(<<digits, scale>>) = digits / 10^scale; *)
(* an f64 is F64(<<num, exp>>) = num / 2^exp (num odd or exp = 0), NaN, Inf    *)
(* or NegInf.  Decimals drawn as inputs are exactly representable in binary.   *)

RECURSIVE Reduce(_, _)
Reduce(num, exp) ==
    IF exp > 0 /\ num % 2 = 0 THEN Reduce(num \div 2, exp - 1) ELSE <<num, exp>>

\* ToPrimitive::to_f64: Some(double) for every BigDecimal.
to_f64(d) == Mk("F64", Reduce(d.val[1] \div (5 ^ d.val[2]), d.val[2]))

\* FromPrimitive::from_f64: None for NaN and the infinities.
NoDecimal == Mk("None", <<>>)
from_f64(x) ==
    IF x.tag = "F64" THEN Mk("Decimal", <<x.val[1] * (5 ^ x.val[2]), x.val[2]>>)
    ELSE NoDecimal

-----------------------------------------------------------------------------
(* impl From<prisma_models::PrismaValue> for PrismaValue *)

PlainTags == {"String", "Boolean", "Enum", "Xml", "Null", "DateTime", "BigInt", "Bytes"}

\* A collected sequence of outcomes: the first element that panics unwinds
\* the whole call.
Collected(tag, rs) ==
    IF \E i \in 1..Len(rs) : IsPanic(rs[i]) THEN Panic ELSE Mk(tag, rs)
\* The same for (key, value) pairs: collected into a Vec, every pair kept.
RECURSIVE LastOfEachKey(_)
LastOfEachKey(ps) ==
    IF ps = <<>> THEN <<>>
    ELSE IF \E j \in 2..Len(ps) : ps[j][1] = ps[1][1] THEN LastOfEachKey(Tail(ps))
    ELSE <<ps[1]>> \o LastOfEachKey(Tail(ps))
CollectedPairsAsMap(tag, ps) ==
    IF \E i \in 1..Len(ps) : IsPanic(ps[i][2]) THEN Panic ELSE Mk(tag, LastOfEachKey(ps))
CollectedPairs(tag, ps) ==
    IF \E i \in 1..Len(ps) : IsPanic(ps[i][2]) THEN Panic ELSE Mk(tag, ps)

JsonArmNullOnError(text) ==
    LET r == from_str(text) IN IF r.ok THEN Mk("Json", r.doc) ELSE Mk("Null", <<>>)
\* serde_json::from_str(&value).unwrap()
JsonArm(text) ==
    LET r == from_str(text) IN IF r.ok THEN Mk("Json", r.doc) ELSE Panic

IntArm(n) == Mk("Int", AsI32(n))

RECURSIVE From_PrismaValue(_)
From_PrismaValue(value) ==
    IF value.tag \in PlainTags THEN value
    ELSE IF value.tag = "Int" THEN IntArm(value.val)
    ELSE IF value.tag = "Uuid" THEN Mk("Uuid", value.val)
    ELSE IF value.tag = "List"
    THEN Collected("List", [i \in 1..Len(value.val) |-> From_PrismaValue(value.val[i])])
    ELSE IF value.tag = "Json" THEN JsonArm(value.val.val)
    ELSE IF value.tag = "Object"
    THEN CollectedPairs("Object", [i \in 1..Len(value.val) |->
                      <<value.val[i][1], From_PrismaValue(value.val[i][2])>>])
    ELSE \* Float: value.to_f64().unwrap()
         Mk("Float", to_f64(value.val))

(* impl Into<prisma_models::PrismaValue> for PrismaValue *)

\* BigDecimal::from_f64(value).unwrap()
FloatArm(x) ==
    LET d == from_f64(x) IN IF d = NoDecimal THEN Panic ELSE Mk("Float", d)

WidenArm(m) == Mk("Int", AsI64(m))

RECURSIVE Into_PrismaValue(_)
Into_PrismaValue(self) ==
    IF self.tag \in PlainTags \cup {"Uuid"} THEN self
    ELSE IF self.tag = "Int" THEN WidenArm(self.val)
    ELSE IF self.tag = "List"
    THEN Collected("List", [i \in 1..Len(self.val) |-> Into_PrismaValue(self.val[i])])
    ELSE IF self.tag = "Json"
    THEN \* serde_json::to_string(&value).unwrap(): never an error on a Value
         Mk("Json", Mk("Text", to_string(self.val)))
    ELSE IF self.tag = "Object"
    THEN CollectedPairs("Object", [i \in 1..Len(self.val) |->
                      <<self.val[i][1], Into_PrismaValue(self.val[i][2])>>])
    ELSE FloatArm(self.val)

-----------------------------------------------------------------------------
(* impl From<query_core::Item> for Item, on a tree without Ref nodes (the   *)
(* Ref arm is the holders' steps below).  Map: sequence of <<key, item>>.   *)

JsonLeaf(json) == Mk("Json", json)

MapArmSorted(ps) == CollectedPairs("Map", [i \in 1..Len(ps) |-> ps[Len(ps) + 1 - i]])
MapArm(ps) == CollectedPairs("Map", ps)

RECURSIVE From_Item(_)
From_Item(item) ==
    IF item.tag = "Map"
    THEN MapArm([i \in 1..Len(item.val) |->
                      <<item.val[i][1], From_Item(item.val[i][2])>>])
    ELSE IF item.tag = "List"
    THEN Collected("List", [i \in 1..Len(item.val) |-> From_Item(item.val[i])])
    ELSE IF item.tag = "Value"
    THEN LET v == From_PrismaValue(item.val) IN IF IsPanic(v) THEN Panic ELSE Mk("Value", v)
    ELSE JsonLeaf(item.val)

-----------------------------------------------------------------------------
(* Scalars used by name *)

One64 == <<0, 0, 0, 1>>
NineTrillion == <<0, 2095, 31181, 36864>>          \* 9_000_000_000_000
GoodJsonText == <<"[", "1", "]">>
BadJsonText == <<"{">>
CJson(text) == Mk("Json", Mk("Text", text))
Null == Mk("Null", <<>>)
FaultyValue == Mk("List", <<Null, CJson(BadJsonText)>>)
\* The scalars that occur as Value leaves of the tree runs, and those of
\* them whose conversion panics.
LeafValues == {Mk("Int", NineTrillion), Mk("Int", One64), Mk("String", "a"),
               CJson(GoodJsonText), CJson(BadJsonText), FaultyValue}
FaultValues == {v \in LeafValues : IsPanic(From_PrismaValue(v))}

-----------------------------------------------------------------------------
(* Inputs of the conversion runs *)

Keys == {"a", "b"}
Seqs(S, n) == UNION {[1..k -> S] : k \in 0..n}

I64InRange == {<<0, 0, 0, 0>>, One64,
               <<65535, 65535, 65535, 65535>>,     \* -1
               <<0, 0, 32767, 65535>>,             \* i32::MAX
               <<65535, 65535, 32768, 0>>}         \* i32::MIN
I64OutOfRange == {NineTrillion,
                  <<0, 0, 32768, 0>>,              \* i32::MAX + 1
                  <<65535, 65535, 32767, 65535>>,  \* i32::MIN - 1
                  <<0, 1, 0, 0>>,                  \* 2^32
                  <<32767, 65535, 65535, 65535>>,  \* i64::MAX
                  <<32768, 0, 0, 0>>}              \* i64::MIN
I64Samples == I64InRange \cup I64OutOfRange
I32Samples == {<<0, 0>>, <<0, 1>>, <<65535, 65535>>, <<32767, 65535>>, <<32768, 0>>}

JsonTexts == Seqs(JsonAlphabet, MaxJsonLen)
CFloat(digits, scale) == Mk("Float", Mk("Decimal", <<digits, scale>>))


CLeaves ==
    {Mk("String", "a"), Mk("Boolean", TRUE), Mk("Enum", "a"), Mk("Uuid", "u1"),
     Mk("Xml", "a"), Null, Mk("DateTime", "d1"), Mk("Bytes", <<1, 2>>)}
    \cup {Mk("Int", n) : n \in I64Samples}
    \cup {Mk("BigInt", n) : n \in {One64, NineTrillion}}
    \cup {CJson(t) : t \in JsonTexts}
    \cup {CFloat(15, 1), CFloat(0, 0), CFloat(-2, 0), CFloat(-20, 1), CFloat(25, 2)}

CElems == {Mk("Int", One64), Mk("Int", NineTrillion), Mk("String", "a"), Null,
           CJson(GoodJsonText), CJson(BadJsonText), CFloat(15, 1)}

PJson(doc) == Mk("Json", doc)
PFloat(x) == Mk("Float", x)
NaN == Mk("NaN", <<>>)
JsonDocs == {Mk("Number", 1), Mk("Number", 10), Mk("Array", <<>>), Mk("Object", <<>>),
             Mk("Array", <<Mk("Number", 1), Mk("Array", <<>>)>>)}

PLeaves ==
    {Mk("String", "a"), Mk("Boolean", TRUE), Mk("Enum", "a"), Mk("Uuid", "u1"),
     Mk("Xml", "a"), Null, Mk("DateTime", "d1"), Mk("Bytes", <<1, 2>>)}
    \cup {Mk("Int", m) : m \in I32Samples}
    \cup {Mk("BigInt", n) : n \in {One64, NineTrillion}}
    \cup {PJson(d) : d \in JsonDocs}
    \cup {PFloat(Mk("F64", <<3, 1>>)), PFloat(Mk("F64", <<0, 0>>)),
          PFloat(Mk("F64", <<-2, 0>>)), PFloat(NaN), PFloat(Mk("Inf", <<>>)),
          PFloat(Mk("NegInf", <<>>))}

PElems == {Mk("Int", <<0, 1>>), Mk("Int", <<32768, 0>>), Mk("String", "a"), Null,
           PJson(Mk("Array", <<Mk("Number", 1)>>)), PFloat(NaN),
           PFloat(Mk("F64", <<3, 1>>))}

Flat(elems) ==
    {Mk("List", s) : s \in Seqs(elems, MaxLen)}
    \cup {Mk("Object", ps) : ps \in Seqs(Keys \X elems, MaxLen)}

RECURSIVE Wrapped(_, _)
Wrapped(S, d) ==
    IF d = 0 THEN S
    ELSE LET W == Wrapped(S, d - 1)
         IN  W \cup {Mk("List", <<x>>) : x \in W} \cup {Mk("Object", <<<<"a", x>>>>) : x \in W}

CanonicalInputs == CLeaves \cup Wrapped(CElems \cup Flat(CElems), MaxDepth)
ClientInputs == PLeaves \cup Wrapped(PElems \cup Flat(PElems), MaxDepth)

\* Result trees without Ref nodes.  A Map's keys are unique.
ItemLeaves ==
    {Mk("Value", c) : c \in CElems \cup {Mk("List", <<Null, CJson(BadJsonText)>>)}}
    \cup {Mk("Json", Mk("Array", <<Mk("Number", 1)>>))}
UniqueKeys(ps) == \A i, j \in 1..Len(ps) : ps[i][1] = ps[j][1] => i = j
ItemFlat ==
    {Mk("List", s) : s \in Seqs(ItemLeaves, MaxLen)}
    \cup {Mk("Map", ps) : ps \in {q \in Seqs(Keys \X ItemLeaves, MaxLen) : UniqueKeys(q)}}
RECURSIVE WrappedItems(_, _)
WrappedItems(S, d) ==
    IF d = 0 THEN S
    ELSE LET W == WrappedItems(S, d - 1)
         IN  W \cup {Mk("List", <<x>>) : x \in W} \cup {Mk("Map", <<<<"a", x>>>>) : x \in W}
ItemInputs == WrappedItems(ItemLeaves \cup ItemFlat, MaxDepth)

Arg(side, v) == [side |-> side, arg |-> v]
NoArg == Arg("none", <<>>)

-----------------------------------------------------------------------------
(* Conversion runs: one call, and the call back the other way. *)

TreeIdle ==
    /\ arcs = <<>> /\ work = <<>> /\ status = <<>> /\ drops = <<>> /\ result = <<>>
    /\ log = <<>> /\ calls = <<>> /\ copies = <<>> /\ freed = <<>> /\ data0 = <<>> /\ input0 = <<>>

ConvInit ==
    /\ cin \in {Arg("canonical", v) : v \in CanonicalInputs}
           \cup {Arg("client", v) : v \in ClientInputs}
           \cup {Arg("item", v) : v \in ItemInputs}
    /\ cout = NoOutcome
    /\ cback = NoOutcome
    /\ TreeIdle

\* PrismaValue::from(value)
FromCanonical ==
    /\ cin.side = "canonical" /\ cout.tag = "NoOutcome"
    /\ cout' = From_PrismaValue(cin.arg)
    /\ UNCHANGED <<cin, cback, treeVars>>

\* value.into()
IntoCanonical ==
    /\ cin.side = "client" /\ cout.tag = "NoOutcome"
    /\ cout' = Into_PrismaValue(cin.arg)
    /\ UNCHANGED <<cin, cback, treeVars>>

\* Item::from(item), item without Ref nodes
FromItem ==
    /\ cin.side = "item" /\ cout.tag = "NoOutcome"
    /\ cout' = From_Item(cin.arg)
    /\ UNCHANGED <<cin, cback, treeVars>>

\* PrismaValue::from(value).into()
BackIntoCanonical ==
    /\ cin.side = "canonical" /\ cout.tag \notin {"NoOutcome", "Panic"}
    /\ cback.tag = "NoOutcome"
    /\ cback' = Into_PrismaValue(cout)
    /\ UNCHANGED <<cin, cout, treeVars>>

\* PrismaValue::from(value.into())
BackFromCanonical ==
    /\ cin.side = "client" /\ cout.tag \notin {"NoOutcome", "Panic"}
    /\ cback.tag = "NoOutcome"
    /\ cback' = From_PrismaValue(cout)
    /\ UNCHANGED <<cin, cout, treeVars>>

ConvNext ==
    \/ FromCanonical
    \/ IntoCanonical
    \/ FromItem
    \/ BackIntoCanonical
    \/ BackFromCanonical

SpecConv == ConvInit /\ [][ConvNext]_vars

-----------------------------------------------------------------------------
(* Result trees with shared sub-trees.  query_core::Item::Ref(arc) is       *)
(* Ref(a), a the id of an Arc in `arcs`.  While a holder is inside the Ref  *)
(* arm the node is Failed(a) (try_unwrap returned Err(arc)) and then        *)
(* Cloning([arc, copy, todo]) (to_owned() under way: todo are the nested    *)
(* Arcs whose count the copy still has to take).                            *)

ArcIds == {1, 2}
Holders == 1..NumHolders
Gone == Mk("Gone", <<>>)

IsFaultLeaf(t) == t.tag = "Value" /\ t.val \in FaultValues
IsEventNode(t) == t.tag \in {"Ref", "Failed", "Cloning"} \/ IsFaultLeaf(t)
Kids(t) ==
    IF t.tag = "Map" THEN [i \in 1..Len(t.val) |-> t.val[i][2]]
    ELSE IF t.tag = "List" THEN t.val
    ELSE <<>>

\* Whether converting t still has a step that touches an Arc or panics.
RECURSIVE HasEvent(_)
HasEvent(t) == IsEventNode(t) \/ \E i \in 1..Len(Kids(t)) : HasEvent(Kids(t)[i])

FirstKid(t) ==
    CHOOSE i \in 1..Len(Kids(t)) :
        HasEvent(Kids(t)[i]) /\ \A j \in 1..(i - 1) : ~HasEvent(Kids(t)[j])

\* The node the conversion reaches next: children are converted in order,
\* each one completely before the next.
RECURSIVE NextEvent(_)
NextEvent(t) == IF IsEventNode(t) THEN t ELSE NextEvent(Kids(t)[FirstKid(t)])

RECURSIVE Replace(_, _)
Replace(t, new) ==
    IF IsEventNode(t) THEN new
    ELSE LET i == FirstKid(t)
         IN  IF t.tag = "Map"
             THEN [t EXCEPT !.val[i] = <<t.val[i][1], Replace(t.val[i][2], new)>>]
             ELSE [t EXCEPT !.val[i] = Replace(t.val[i], new)]

\* The Arcs a query_core::Item holds, in the order its drop (or its clone)
\* reaches them.
RECURSIVE RefsOf(_)
RECURSIVE RefsOfKids(_, _)
RefsOfKids(ks, i) == IF i > Len(ks) THEN <<>> ELSE RefsOf(ks[i]) \o RefsOfKids(ks, i + 1)
RefsOf(t) ==
    IF t.tag \in {"Ref", "Failed"} THEN <<t.val>>
    ELSE IF t.tag = "Cloning"
    THEN <<t.val.arc>> \o SubSeq(RefsOf(t.val.copy), 1,
                                 Len(RefsOf(t.val.copy)) - Len(t.val.todo))
    ELSE RefsOfKids(Kids(t), 1)

Count(seq, a) == Cardinality({i \in 1..Len(seq) : seq[i] = a})

\* Holds on Arc a: by the holders' items, by drops under way, and by the
\* data of live Arcs.
Holds(a) ==
    LET perHolder(h) == Count(RefsOf(work[h]), a) + Count(drops[h], a)
        perArc(b) == IF arcs[b].state = "live" THEN Count(RefsOf(arcs[b].data), a) ELSE 0
        RECURSIVE SumH(_)
        SumH(h) == IF h = 0 THEN 0 ELSE perHolder(h) + SumH(h - 1)
    IN  SumH(NumHolders) + perArc(1) + perArc(2)

-----------------------------------------------------------------------------
(* Arc<T> *)

\* Arc::try_unwrap: succeeds iff the strong count is 1 (compare_exchange(1, 0)).
UniqueNever(strong) == FALSE
UniqueAlways(strong) == strong >= 1
Unique(strong) == strong = 1

MoveOut(A, a) == [A EXCEPT ![a] = [strong |-> 0, state |-> "moved", data |-> Gone]]

\* drop(arc): the count goes down by one; the last one out drops the data.
DecrementLeaky(A, a) == A
Decrement(A, a) ==
    IF A[a].strong = 1
    THEN [A EXCEPT ![a] = [strong |-> 0, state |-> "dropped", data |-> Gone]]
    ELSE [A EXCEPT ![a].strong = A[a].strong - 1]
\* What dropping the data of a goes on to drop.
Cascade(A, a) == IF A[a].strong = 1 THEN RefsOf(A[a].data) ELSE <<>>

\* arc.as_ref().to_owned(): a deep copy, except that a nested Ref is copied as
\* the same Arc with its count raised.
ToOwnedStale(A, a) == Mk("Value", Null)
ToOwned(A, a) == A[a].data

-----------------------------------------------------------------------------
(* Inputs of the tree runs *)

JsonDoc1 == Mk("Array", <<Mk("Number", 1)>>)
InnerData ==
    {Mk("Value", Mk("Int", NineTrillion)),
     Mk("Json", JsonDoc1)}
OuterData ==
    {Mk("Value", Mk("String", "a")),
     Mk("Map", <<<<"b", Mk("Ref", 2)>>, <<"a", Mk("Value", CJson(GoodJsonText))>>>>),
     Mk("List", <<Mk("Value", FaultyValue), Mk("Ref", 2)>>)}
HolderInputs ==
    <<Mk("Ref", 1),
      Mk("List", <<Mk("Json", JsonDoc1), Mk("Ref", 2)>>)>>

\* Holders are interchangeable: their inputs are drawn up to a permutation
\* of the holders.
InputChoices ==
    {[h \in Holders |-> HolderInputs[k[h]]] :
        k \in {f \in [Holders -> 1..Len(HolderInputs)] :
                 \A g, h \in Holders : g <= h => f[g] <= f[h]}}

InitialHolds(d, w, a) ==
    LET RECURSIVE SumH(_)
        SumH(h) == IF h = 0 THEN 0 ELSE Count(RefsOf(w[h]), a) + SumH(h - 1)
    IN  SumH(NumHolders) + Count(RefsOf(d[1]), a) + Count(RefsOf(d[2]), a)

ConvIdle == cin = NoArg /\ cout = NoOutcome /\ cback = NoOutcome

\* Every Arc is held by someone, and its count is the number of its holders.
TreeInit ==
    /\ ConvIdle
    /\ data0 \in [ArcIds -> OuterData \cup InnerData]
    /\ data0[1] \in OuterData /\ data0[2] \in InnerData
    /\ input0 \in InputChoices
    /\ \A a \in ArcIds : InitialHolds(data0, input0, a) >= 1
    /\ arcs = [a \in ArcIds |-> [strong |-> InitialHolds(data0, input0, a),
                                 state |-> "live", data |-> data0[a]]]
    /\ work = input0
    /\ status = [h \in Holders |-> "idle"]
    /\ drops = [h \in Holders |-> <<>>]
    /\ result = [h \in Holders |-> NoOutcome]
    /\ log = [a \in ArcIds |-> {}]
    /\ calls = [a \in ArcIds |-> [move |-> 0, clone |-> 0]]
    /\ copies = [a \in ArcIds |-> 0]
    /\ freed = [a \in ArcIds |-> 0]

-----------------------------------------------------------------------------
(* The Ref arm of Item::from, one atomic access to an Arc per step:         *)
(*   Arc::try_unwrap(arc).unwrap_or_else(|arc| arc.as_ref().to_owned()).into()    *)

Runnable(h) ==
    /\ status[h] \in {"idle", "running"}
    /\ drops[h] = <<>>
    /\ HasEvent(work[h])
Ev(h) == NextEvent(work[h])
Entry(c, p) == [seen |-> c, path |-> p]
Bump(f, a, last) == IF last THEN [f EXCEPT ![a] = @ + 1] ELSE f

\* Arc::try_unwrap(arc): Ok(data), the data moved out, or Err(arc).
TryUnwrap(h) ==
    /\ Runnable(h)
    /\ Ev(h).tag = "Ref"
    /\ LET a == Ev(h).val
           c == arcs[a].strong
       IN  IF Unique(c)
           THEN /\ arcs' = MoveOut(arcs, a)
                /\ work' = [work EXCEPT ![h] = Replace(@, arcs[a].data)]
                /\ freed' = [freed EXCEPT ![a] = @ + 1]
                /\ log' = [log EXCEPT ![a] = @ \cup {Entry(c, "move")}]
                /\ calls' = [calls EXCEPT ![a].move = @ + 1]
           ELSE /\ work' = [work EXCEPT ![h] = Replace(@, Mk("Failed", a))]
                /\ log' = [log EXCEPT ![a] = @ \cup {Entry(c, "clone")}]
                /\ calls' = [calls EXCEPT ![a].clone = @ + 1]
                /\ UNCHANGED <<arcs, freed>>
    /\ status' = [status EXCEPT ![h] = "running"]
    /\ UNCHANGED <<drops, result, copies, data0, input0, convVars>>

\* arc.as_ref().to_owned(): the data is read and copied.
CloneData(h) ==
    /\ Runnable(h)
    /\ Ev(h).tag = "Failed"
    /\ LET a == Ev(h).val
           copy == ToOwned(arcs, a)
       IN  /\ work' = [work EXCEPT ![h] = Replace(@,
                          Mk("Cloning", [arc |-> a, copy |-> copy, todo |-> RefsOf(copy)]))]
           /\ copies' = [copies EXCEPT ![a] = @ + 1]
    /\ UNCHANGED <<arcs, status, drops, result, log, calls, freed, data0, input0, convVars>>

\* Arc::clone of a nested Ref inside to_owned(): its count goes up by one.
CloneInc(h) ==
    /\ Runnable(h)
    /\ Ev(h).tag = "Cloning"
    /\ Ev(h).val.todo # <<>>
    /\ LET b == Head(Ev(h).val.todo)
       IN  /\ arcs' = [arcs EXCEPT ![b].strong = @ + 1]
           /\ work' = [work EXCEPT ![h] = Replace(@,
                          Mk("Cloning", [Ev(h).val EXCEPT !.todo = Tail(@)]))]
    /\ UNCHANGED <<status, drops, result, log, calls, copies, freed, data0, input0, convVars>>

\* The closure returns the copy and drops its arc.
ReleaseArc(h) ==
    /\ Runnable(h)
    /\ Ev(h).tag = "Cloning"
    /\ Ev(h).val.todo = <<>>
    /\ LET a == Ev(h).val.arc
       IN  /\ arcs' = Decrement(arcs, a)
           /\ drops' = [drops EXCEPT ![h] = Cascade(arcs, a)]
           /\ freed' = Bump(freed, a, arcs[a].strong = 1)
           /\ work' = [work EXCEPT ![h] = Replace(@, Ev(h).val.copy)]
    /\ UNCHANGED <<status, result, log, calls, copies, data0, input0, convVars>>

\* The drop of one Arc held by data that is being dropped.
DropPending(h) ==
    /\ status[h] \in {"running", "unwinding"}
    /\ drops[h] # <<>>
    /\ LET b == Head(drops[h])
       IN  /\ arcs' = Decrement(arcs, b)
           /\ drops' = [drops EXCEPT ![h] = Cascade(arcs, b) \o Tail(@)]
           /\ freed' = Bump(freed, b, arcs[b].strong = 1)
    /\ UNCHANGED <<work, status, result, log, calls, copies, data0, input0, convVars>>

\* scalar.into() panics on a Value leaf: the call unwinds, dropping what
\* it still holds of the item.
Unwind(h) ==
    /\ Runnable(h)
    /\ IsFaultLeaf(Ev(h))
    /\ status' = [status EXCEPT ![h] = "unwinding"]
    /\ drops' = [drops EXCEPT ![h] = RefsOf(work[h])]
    /\ work' = [work EXCEPT ![h] = Panic]
    /\ UNCHANGED <<arcs, result, log, calls, copies, freed, data0, input0, convVars>>

Abort(h) ==
    /\ status[h] = "unwinding"
    /\ drops[h] = <<>>
    /\ status' = [status EXCEPT ![h] = "panicked"]
    /\ result' = [result EXCEPT ![h] = Panic]
    /\ UNCHANGED <<arcs, work, drops, log, calls, copies, freed, data0, input0, convVars>>

\* No Ref is left and no leaf panics: the Map, List, Value and Json arms
\* build the Item.
Finish(h) ==
    /\ status[h] \in {"idle", "running"}
    /\ drops[h] = <<>>
    /\ ~HasEvent(work[h])
    /\ result' = [result EXCEPT ![h] = From_Item(work[h])]
    /\ status' = [status EXCEPT ![h] = "done"]
    /\ UNCHANGED <<arcs, work, drops, log, calls, copies, freed, data0, input0, convVars>>

HolderStep(h) ==
    \/ TryUnwrap(h)
    \/ CloneData(h)
    \/ CloneInc(h)
    \/ ReleaseArc(h)
    \/ DropPending(h)
    \/ Unwind(h)
    \/ Abort(h)
    \/ Finish(h)

\* Holders run concurrently.
TreeNext == \E h \in Holders : HolderStep(h)

\* Holders run one after another: a call is not entered while another is
\* under way.
NoneUnderWay(h) ==
    \A g \in Holders \ {h} : status[g] \in {"idle", "done", "panicked"}
SeqNext == \E h \in Holders : NoneUnderWay(h) /\ HolderStep(h)

Spec == TreeInit /\ [][TreeNext]_vars
SpecSeq == TreeInit /\ [][SeqNext]_vars

-----------------------------------------------------------------------------
(* Vocabulary of the properties *)

\* v holds no Float and no Json at any depth.
RECURSIVE Plain(_)
Plain(v) ==
    IF v.tag \in {"Float", "Json"} THEN FALSE
    ELSE IF v.tag = "List" THEN \A i \in 1..Len(v.val) : Plain(v.val[i])
    ELSE IF v.tag = "Object" THEN \A i \in 1..Len(v.val) : Plain(v.val[i][2])
    ELSE TRUE

\* An i64 within the range of i32: its high half is the sign of its low half.
InI32Range(n) ==
    \/ n[1] = 0 /\ n[2] = 0 /\ n[3] < Limb \div 2
    \/ n[1] = Limb - 1 /\ n[2] = Limb - 1 /\ n[3] >= Limb \div 2

\* Every canonical Int in c, at any depth, is within the range of i32.
RECURSIVE IntsNarrow(_)
IntsNarrow(c) ==
    IF c.tag = "Int" THEN InI32Range(c.val)
    ELSE IF c.tag = "List" THEN \A i \in 1..Len(c.val) : IntsNarrow(c.val[i])
    ELSE IF c.tag = "Object" THEN \A i \in 1..Len(c.val) : IntsNarrow(c.val[i][2])
    ELSE TRUE

\* v holds a Float that is NaN or infinite, at some depth.
RECURSIVE HasNonFinite(_)
HasNonFinite(v) ==
    IF v.tag = "Float" THEN v.val.tag # "F64"
    ELSE IF v.tag = "List" THEN \E i \in 1..Len(v.val) : HasNonFinite(v.val[i])
    ELSE IF v.tag = "Object" THEN \E i \in 1..Len(v.val) : HasNonFinite(v.val[i][2])
    ELSE FALSE

\* c holds a Json whose text is not a JSON document, at some depth.
RECURSIVE HasBadJson(_)
HasBadJson(c) ==
    IF c.tag = "Json" THEN ~from_str(c.val.val).ok
    ELSE IF c.tag = "List" THEN \E i \in 1..Len(c.val) : HasBadJson(c.val[i])
    ELSE IF c.tag = "Object" THEN \E i \in 1..Len(c.val) : HasBadJson(c.val[i][2])
    ELSE FALSE

\* A result tree (Ref followed into the data its Arc was built with) has a
\* Value leaf that holds such a Json.
RECURSIVE TreeHasBadJson(_)
TreeHasBadJson(t) ==
    IF t.tag = "Value" THEN HasBadJson(t.val)
    ELSE IF t.tag = "Ref" THEN TreeHasBadJson(data0[t.val])
    ELSE \E i \in 1..Len(Kids(t)) : TreeHasBadJson(Kids(t)[i])

\* out is an Item without Ref.
RECURSIVE NoRef(_)
NoRef(out) ==
    /\ out.tag \in {"Map", "List", "Value", "Json"}
    /\ \A i \in 1..Len(Kids(out)) : NoRef(Kids(out)[i])

\* out is the tree t with every Ref replaced by what its Arc was built with:
\* same keys in the same order, same length and order of children, Json
\* leaves as they were, Value leaves converted.
RECURSIVE Matches(_, _)
Matches(out, t) ==
    IF t.tag = "Ref" THEN Matches(out, data0[t.val])
    ELSE IF t.tag = "Map"
    THEN /\ out.tag = "Map"
         /\ Len(out.val) = Len(t.val)
         /\ \A i \in 1..Len(t.val) :
                /\ out.val[i][1] = t.val[i][1]
                /\ Matches(out.val[i][2], t.val[i][2])
    ELSE IF t.tag = "List"
    THEN /\ out.tag = "List"
         /\ Len(out.val) = Len(t.val)
         /\ \A i \in 1..Len(t.val) : Matches(out.val[i], t.val[i])
    ELSE IF t.tag = "Json" THEN out = t
    ELSE /\ t.tag = "Value"
         /\ out.tag = "Value"
         /\ out.val = From_PrismaValue(t.val)

Converted == cout.tag # "NoOutcome"
WentBack == cback.tag # "NoOutcome"

\* try_unwrap calls on a that took path p.
Calls(a, p) == IF p = "move" THEN calls[a].move ELSE calls[a].clone

\* Holders inside the Ref arm for a, before or after reading its data.
Pending(a, tag) ==
    Cardinality({h \in Holders :
        /\ HasEvent(work[h]) /\ Ev(h).tag = tag
        /\ (IF tag = "Failed" THEN Ev(h).val ELSE Ev(h).val.arc) = a})

AllReturned == \A h \in Holders : status[h] \in {"done", "panicked"}
NonePanicked == \A h \in Holders : status[h] \in {"idle", "running", "done"}

-----------------------------------------------------------------------------
(* Properties of the tree runs *)

\* C1: a Ref resolved while its sub-tree has two or more holders does not
\* move the sub-tree out: as long as anyone holds an Arc, the Arc is live and
\* its data (nested Refs included) is the data it was built with; the copy a
\* holder takes is that data, and the Item a holder returns is the
\* resolution of the original tree.
C1_SharedResolveKeepsOriginal ==
    /\ \A a \in ArcIds :
          /\ Holds(a) >= 1 => arcs[a].state = "live" /\ arcs[a].data = data0[a]
          /\ \A e \in log[a] : e.seen >= 2 => e.path = "clone"
    /\ \A h \in Holders :
          /\ (HasEvent(work[h]) /\ Ev(h).tag = "Cloning")
                => Ev(h).val.copy = data0[Ev(h).val.arc]
          /\ status[h] = "done" => Matches(result[h], input0[h])
C1_Witness ==
    \E h \in Holders :
        /\ status[h] = "done"
        /\ input0[h] = Mk("Ref", 1)
        /\ log[1] = {Entry(NumHolders, "clone")}
        /\ copies[1] = 1
        /\ arcs[1].state = "live"
        /\ arcs[1].strong = NumHolders - 1
        /\ Matches(result[h], data0[1])

\* C2: a Ref resolved while its holder is the only owner (count 1) moves the
\* sub-tree out and makes no copy: every try_unwrap that saw 1 took the move
\* path, and every copy ever made of an Arc's data answers a try_unwrap that
\* saw a count other than 1.
C2_UniqueResolveMovesWithoutCopy ==
    \A a \in ArcIds :
        /\ \A e \in log[a] : e.seen = 1 <=> e.path = "move"
        /\ copies[a] + Pending(a, "Failed") = Calls(a, "clone")
        /\ arcs[a].state = "moved" => Calls(a, "move") = 1
C2_Witness ==
    \E a \in ArcIds :
        /\ log[a] = {Entry(1, "move")}
        /\ copies[a] = 0
        /\ arcs[a].state = "moved"
        /\ AllReturned /\ NonePanicked

\* C3: under every interleaving of the count check, the clone and the
\* release, each holder that returns has the resolution of the tree, an Arc
\* is moved out at most once and its data leaves it at most once, the count
\* of an Arc is the number of its holders, and an Arc that is no longer live
\* has no holder left (none holding it, none reading it).
C3_ConcurrentResolveSafe ==
    /\ \A a \in ArcIds :
          /\ Calls(a, "move") <= 1
          /\ freed[a] <= 1
          /\ arcs[a].strong = Holds(a)
          /\ arcs[a].state # "live" => Holds(a) = 0 /\ arcs[a].strong = 0
    /\ \A h \in Holders : status[h] = "done" => Matches(result[h], input0[h])
\* Both outcomes for one Arc: every holder copied and the last release
\* dropped the data in place.
C3_Witness ==
    /\ AllReturned /\ NonePanicked
    /\ arcs[1].state = "dropped"
    /\ Calls(1, "move") = 0
    /\ copies[1] = NumHolders
    /\ \A h \in Holders : Matches(result[h], input0[h])

\* C9: the Item a holder returns has no Ref at any depth and is the input
\* tree with every Ref (Ref nested in Ref included) replaced by its
\* referent, keys and children in order, Json leaves unchanged, Value leaves
\* converted; and only a tree with a malformed Json in a Value leaf fails
\* to return one.
C9_ResolvedTreeMatchesInput ==
    \A h \in Holders :
        /\ status[h] = "done" => NoRef(result[h]) /\ Matches(result[h], input0[h])
        /\ status[h] \in {"unwinding", "panicked"} => TreeHasBadJson(input0[h])
        /\ status[h] = "done" => ~TreeHasBadJson(input0[h])
C9_Witness ==
    \E h \in Holders :
        /\ status[h] = "done"
        /\ input0[h] = Mk("Ref", 1)
        /\ data0[1] = Mk("Map", <<<<"b", Mk("Ref", 2)>>,
                                  <<"a", Mk("Value", CJson(GoodJsonText))>>>>)
        /\ data0[2] = Mk("Value", Mk("Int", NineTrillion))
        /\ result[h] =
             Mk("Map", <<<<"b", Mk("Value", Mk("Int", <<31181, 36864>>))>>,
                         <<"a", Mk("Value", Mk("Json", JsonDoc1))>>>>)

\* C10: every resolution of a Ref releases exactly one hold (the count of an
\* Arc is the number of holds on it); when the holders run one after
\* another, an Arc is never dropped in place by a resolution: all calls but
\* one took the clone path, each seeing a count of at least 2, and the last
\* one, seeing 1, moved the data out; once every holder has returned, no
\* hold is left and the data of each Arc has left it exactly once.
C10_SequentialLastHolderMoves ==
    \A a \in ArcIds :
        /\ arcs[a].strong = Holds(a)
        /\ \A e \in log[a] : e.seen = 1 <=> e.path = "move"
        /\ NonePanicked => arcs[a].state # "dropped"
        /\ arcs[a].state = "moved" =>
              /\ Calls(a, "move") = 1
              /\ copies[a] = Calls(a, "clone")
              /\ Holds(a) = 0
        /\ AllReturned => arcs[a].strong = 0 /\ freed[a] = 1 /\ arcs[a].state # "live"
C10_Witness ==
    /\ AllReturned /\ NonePanicked
    /\ \A h \in Holders : input0[h] = Mk("Ref", 1)
    /\ arcs[1].state = "moved"
    /\ log[1] = {Entry(c, "clone") : c \in 2..NumHolders} \cup {Entry(1, "move")}
    /\ Calls(1, "clone") = NumHolders - 1
    /\ copies[1] = NumHolders - 1
    /\ freed[1] = 1

-----------------------------------------------------------------------------
(* Properties of the conversion runs *)

\* C4: for a Value v with no Float and no Json at any depth,
\* from_canonical(to_canonical(v)) = v: same variant, same payload, List
\* elements and Object pairs in order, duplicate keys kept.
C4_ValueRoundTrip ==
    (cin.side = "client" /\ Plain(cin.arg) /\ Converted) =>
        /\ ~IsPanic(cout)
        /\ WentBack => cback = cin.arg
C4_Witness ==
    /\ cin.side = "client"
    /\ cin.arg = Mk("Object", <<<<"a", Mk("Int", <<32768, 0>>)>>, <<"a", Null>>>>)
    /\ cout = Mk("Object", <<<<"a", Mk("Int", <<65535, 65535, 32768, 0>>)>>, <<"a", Null>>>>)
    /\ cback = cin.arg

\* C5 as stated: for every canonical value c with no Float and no Json at
\* any depth, every 64-bit Int included, to_canonical(from_canonical(c)) = c.
C5_CanonicalRoundTripAnyInt ==
    (cin.side = "canonical" /\ Plain(cin.arg) /\ WentBack) => cback = cin.arg

\* C5 amended: for every canonical value c with no Float and no Json at any
\* depth whose Ints are all within the range of i32,
\* to_canonical(from_canonical(c)) = c; an Int outside that range comes back
\* as the sign extension of its low 32 bits, which is another value.
C5_CanonicalRoundTripNarrowInts ==
    /\ (cin.side = "canonical" /\ Plain(cin.arg) /\ IntsNarrow(cin.arg) /\ Converted) =>
          /\ ~IsPanic(cout)
          /\ WentBack => cback = cin.arg
    /\ (cin.side = "canonical" /\ cin.arg.tag = "Int" /\ ~InI32Range(cin.arg.val)
          /\ WentBack) =>
          /\ cback # cin.arg
          /\ cback.tag = "Int"
          /\ InI32Range(cback.val)
          /\ cback.val[3] = cin.arg.val[3] /\ cback.val[4] = cin.arg.val[4]
C5_Witness ==
    /\ cin.side = "canonical"
    /\ cin.arg = Mk("List", <<Mk("Int", One64), Mk("String", "a")>>)
    /\ cout = Mk("List", <<Mk("Int", <<0, 1>>), Mk("String", "a")>>)
    /\ cback = cin.arg

\* C6: to_canonical of a Value that holds a non-finite Float, at the top or
\* nested, returns an explicit typed error to its caller.
C6_NonFiniteFloatIsTypedError ==
    (cin.side = "client" /\ HasNonFinite(cin.arg) /\ Converted) => cout.tag = "Err"

\* C7: from_canonical of a value that holds a Json whose text is not
\* well-formed, at the top, nested in a List or Object, or in a Value leaf
\* of a result tree, does not return: no Null, no empty document, no value.
C7_MalformedJsonAborts ==
    /\ (cin.side = "canonical" /\ HasBadJson(cin.arg) /\ Converted) => cout = Panic
    /\ (cin.side = "item" /\ TreeHasBadJson(cin.arg) /\ Converted) => cout = Panic
    /\ (cin.side \in {"canonical", "item"} /\ Converted /\ cout = Panic) =>
          IF cin.side = "item" THEN TreeHasBadJson(cin.arg) ELSE HasBadJson(cin.arg)
C7_Witness ==
    /\ cin.side = "item"
    /\ cin.arg = Mk("Map", <<<<"a", Mk("List", <<Mk("Value", FaultyValue)>>)>>>>)
    /\ cout = Panic

\* C8: from_canonical of Int(n) is Int(m), m the low 32 bits of n read as a
\* two's complement integer: m is congruent to n modulo 2^32, n within the
\* range of i32 is unchanged, 9_000_000_000_000 gives 2_043_514_880; never
\* the nearest bound of the range, never a failure.
C8_IntNarrowingTruncates ==
    (cin.side = "canonical" /\ cin.arg.tag = "Int" /\ Converted) =>
        LET n == cin.arg.val
            m == I32Value(cout.val)
        IN  /\ cout.tag = "Int"
            /\ cout.val \in (0..(Limb - 1)) \X (0..(Limb - 1))
            /\ m % Limb = n[4]
            /\ (m \div Limb) % Limb = n[3]
            /\ InI32Range(n) => I32Of(m) = <<n[3], n[4]>> /\ (m < 0 <=> n[1] = Limb - 1)
            /\ n = NineTrillion => m = 2043514880
C8_Witness ==
    /\ cin = Arg("canonical", Mk("Int", NineTrillion))
    /\ cout = Mk("Int", I32Of(2043514880))
====
